---- MODULE Spec2Model ----
(***************************************************************************)
(* Request-capture endpoints of nodejs-serverless-function-express.        *)
(*                                                                         *)
(* Five handlers are modelled:                                             *)
(*   "basic"  src/unnamed/part_001:11-94    echo + persist                 *)
(*   "stream" src/unnamed/part_001:105-252  rawBody/bodyType + stream      *)
(*                                          fallback + persist             *)
(*   "xml"    src/unnamed/part_002:19-160   rawBody/xmlMetadata + persist  *)
(*   "typed"  src/api/test-capture.ts:94-199 rawBody/bodyType + persist    *)
(*   "diag"   src/api/test-capture.ts:3-83  diagnostic echo, no persistence*)
(*                                                                         *)
(* JavaScript strings are sequences of one-character strings, so that      *)
(* includes/indexOf/trim/startsWith/substring are computed, not assumed.   *)
(* Pass-through request fields that no handler inspects (url, query,       *)
(* x-forwarded-for, user-agent, content-length) are not part of the        *)
(* request model; the content-type header, the method and the body are.    *)
(***************************************************************************)
EXTENDS Integers, Sequences, FiniteSets, TLC

\* ------------------------------------------------------------------------
\* Bounds of the model
\* ------------------------------------------------------------------------
MaxFrags == 2

MaxRequests == 2

MaxClock == 1

NumSuffixes == 2

\* ------------------------------------------------------------------------
\* String literals of the sources, as character sequences
\* ------------------------------------------------------------------------
STR_application_json ==
  <<"a","p","p","l","i","c","a","t","i","o","n","/","j","s","o","n">>

STR_xml ==
  <<"x","m","l">>

STR_text_plain ==
  <<"t","e","x","t","/","p","l","a","i","n">>

STR_xml_decl ==
  <<"<","?","x","m","l">>

STR_decl_end ==
  <<"?",">">>

STR_form_urlencoded ==
  <<"a","p","p","l","i","c","a","t","i","o","n","/","x","-","w","w","w","-","f","o","r","m","-","u","r","l","e","n","c","o","d","e","d">>

STR_multipart ==
  <<"m","u","l","t","i","p","a","r","t","/","f","o","r","m","-","d","a","t","a">>

STR_doctype ==
  <<"<","!","D","O","C","T","Y","P","E">>

STR_encoding_utf8 ==
  <<"e","n","c","o","d","i","n","g","=","\"","U","T","F","-","8","\"">>

STR_not_set ==
  <<"n","o","t","-","s","e","t">>

STR_json ==
  <<"j","s","o","n">>

STR_form ==
  <<"f","o","r","m">>

STR_text ==
  <<"t","e","x","t">>

STR_empty_object ==
  <<"{","}">>

STR_object_Object ==
  <<"[","o","b","j","e","c","t"," ","O","b","j","e","c","t","]">>

STR_true ==
  <<"t","r","u","e">>

STR_false ==
  <<"f","a","l","s","e">>

STR_unknown ==
  <<"u","n","k","n","o","w","n">>

STR_toString ==
  <<"t","o","S","t","r","i","n","g">>

\* ------------------------------------------------------------------------
\* JavaScript string primitives
\* ------------------------------------------------------------------------
Min(S) == CHOOSE x \in S : \A y \in S : x <= y

Max(S) == CHOOSE x \in S : \A y \in S : x >= y

\* White space removed by String.prototype.trim (the members that can occur).
WhiteSpace == {" ", "\n", "\t", "\r"}

\* s has pat at 0-based offset i
MatchAt(s, pat, i) ==
  /\ i >= 0
  /\ i + Len(pat) <= Len(s)
  /\ \A k \in 1..Len(pat) : s[i + k] = pat[k]

\* String.prototype.indexOf: 0-based index of the first occurrence, or -1
IndexOf(s, pat) ==
  LET hits == {i \in 0..(Len(s) - Len(pat)) : MatchAt(s, pat, i)}
  IN IF hits = {} THEN -1 ELSE Min(hits)

\* String.prototype.includes
Includes(s, pat) == IndexOf(s, pat) # -1

\* String.prototype.startsWith
StartsWith(s, pat) == MatchAt(s, pat, 0)

\* String.prototype.trim
Trim(s) ==
  LET keep == {i \in 1..Len(s) : s[i] \notin WhiteSpace}
  IN IF keep = {} THEN <<>> ELSE SubSeq(s, Min(keep), Max(keep))

\* String.prototype.substring(a, b): arguments clamped to [0, length] and
\* swapped when a > b
Substring(s, a, b) ==
  LET clamp(x) == IF x < 0 THEN 0 ELSE IF x > Len(s) THEN Len(s) ELSE x
      lo == IF clamp(a) <= clamp(b) THEN clamp(a) ELSE clamp(b)
      hi == IF clamp(a) <= clamp(b) THEN clamp(b) ELSE clamp(a)
  IN SubSeq(s, lo + 1, hi)

Digits == {"0","1","2","3","4","5","6","7","8","9"}

Letters ==
  {"a","b","c","d","e","f","g","h","i","j","k","l","m","n","o","p","q","r",
   "s","t","u","v","w","x","y","z","A","B","C","D","E","F","G","H","I","J",
   "K","L","M","N","O","P","Q","R","S","T","U","V","W","X","Y","Z"}

DigitChar(d) ==
  CASE d = 0 -> "0" [] d = 1 -> "1" [] d = 2 -> "2" [] d = 3 -> "3"
    [] d = 4 -> "4" [] d = 5 -> "5" [] d = 6 -> "6" [] d = 7 -> "7"
    [] d = 8 -> "8" [] d = 9 -> "9"

DigitVal(c) ==
  CASE c = "0" -> 0 [] c = "1" -> 1 [] c = "2" -> 2 [] c = "3" -> 3
    [] c = "4" -> 4 [] c = "5" -> 5 [] c = "6" -> 6 [] c = "7" -> 7
    [] c = "8" -> 8 [] c = "9" -> 9

RECURSIVE NumberToString(_)
\* Number.prototype.toString for a non-negative integer
NumberToString(n) ==
  IF n < 10 THEN <<DigitChar(n)>>
  ELSE NumberToString(n \div 10) \o <<DigitChar(n % 10)>>

RECURSIVE DigitsToNumber(_)
DigitsToNumber(s) ==
  IF s = <<>> THEN 0
  ELSE 10 * DigitsToNumber(SubSeq(s, 1, Len(s) - 1)) + DigitVal(s[Len(s)])

\* the match of /<([a-zA-Z][a-zA-Z0-9]*)/ : capture group 1 of the leftmost
\* match, greedy; <<>> stands for "no match" (a match is never empty)
RootMatch(s) ==
  LET starts == {i \in 1..(Len(s) - 1) : s[i] = "<" /\ s[i + 1] \in Letters}
  IN IF starts = {} THEN <<>>
     ELSE LET i == Min(starts)
              ends == {j \in (i + 1)..Len(s) :
                         \A k \in (i + 1)..j : s[k] \in Letters \cup Digits}
          IN SubSeq(s, i + 1, Max(ends))

\* ------------------------------------------------------------------------
\* JavaScript values.  Every value is a record of one shape:
\*   t      "undefined" | "null" | "string" | "number" | "boolean" | "object"
\*   s      the characters of a string, or the bytes of a Buffer
\*   n      the value of a number (non-negative integers suffice)
\*   b      the value of a boolean
\*   cls    of an object: "plain" (Object.prototype), "nullproto" (no
\*          prototype, as querystring.parse returns) or "buffer"
\*   fields of an object: its own enumerable properties in property order,
\*          each [k |-> name, v |-> text of the value, num |-> value is a
\*          number (otherwise a string)]
\* ------------------------------------------------------------------------
JSV(t, s, n, b, cls, fields) ==
  [t |-> t, s |-> s, n |-> n, b |-> b, cls |-> cls, fields |-> fields]

JSUndefined == JSV("undefined", <<>>, 0, FALSE, "", <<>>)

JSNull == JSV("null", <<>>, 0, FALSE, "", <<>>)

JSString(s) == JSV("string", s, 0, FALSE, "", <<>>)

JSNumber(n) == JSV("number", <<>>, n, FALSE, "", <<>>)

JSBoolean(b) == JSV("boolean", <<>>, 0, b, "", <<>>)

JSObject(cls, fields) == JSV("object", <<>>, 0, FALSE, cls, fields)

JSBuffer(bytes) == JSV("object", bytes, 0, FALSE, "buffer", <<>>)

Field(k, v, num) == [k |-> k, v |-> v, num |-> num]

\* ToBoolean
Truthy(v) ==
  CASE v.t = "undefined" -> FALSE
    [] v.t = "null"      -> FALSE
    [] v.t = "string"    -> v.s # <<>>
    [] v.t = "number"    -> v.n # 0
    [] v.t = "boolean"   -> v.b
    [] v.t = "object"    -> TRUE

\* the typeof operator
TypeOf(v) == IF v.t = "null" THEN "object" ELSE v.t

\* UTF-16 code of the characters a Buffer of the corpus can hold
CharCode(c) ==
  CASE c = " " -> 32 [] c = "\"" -> 34 [] c = "&" -> 38 [] c = "+" -> 43
    [] c = "1" -> 49
    [] c = ":" -> 58 [] c = "<" -> 60 [] c = "=" -> 61 [] c = ">" -> 62
    [] c = "?" -> 63 [] c = "S" -> 83 [] c = "a" -> 97 [] c = "e" -> 101
    [] c = "f" -> 102 [] c = "g" -> 103 [] c = "i" -> 105 [] c = "l" -> 108
    [] c = "m" -> 109 [] c = "n" -> 110 [] c = "o" -> 111 [] c = "r" -> 114
    [] c = "s" -> 115 [] c = "t" -> 116 [] c = "x" -> 120 [] c = "{" -> 123
    [] c = "}" -> 125

RECURSIVE JSONEscape(_)
\* the escapes JSON.stringify applies inside a string
JSONEscape(s) ==
  IF s = <<>> THEN <<>>
  ELSE (CASE s[1] = "\"" -> <<"\\", "\"">>
          [] s[1] = "\\" -> <<"\\", "\\">>
          [] s[1] = "\n" -> <<"\\", "n">>
          [] OTHER       -> <<s[1]>>) \o JSONEscape(Tail(s))

JSONQuote(s) == <<"\"">> \o JSONEscape(s) \o <<"\"">>

RECURSIVE JoinLines(_, _)
\* lines joined by ",\n", each indented by pad
JoinLines(lines, pad) ==
  IF lines = <<>> THEN <<>>
  ELSE pad \o lines[1]
       \o (IF Len(lines) = 1 THEN <<>> ELSE <<",", "\n">>)
       \o JoinLines(Tail(lines), pad)

\* JSON.stringify(v, null, 2) of a truthy value
JSONStringify(v) ==
  CASE v.t = "string"  -> JSONQuote(v.s)
    [] v.t = "number"  -> NumberToString(v.n)
    [] v.t = "boolean" -> IF v.b THEN STR_true ELSE STR_false
    [] v.t = "object" /\ v.cls = "buffer" ->
         \* Buffer.prototype.toJSON: {type: 'Buffer', data: [codes]}
         <<"{", "\n">> \o <<" ", " ">> \o JSONQuote(<<"t","y","p","e">>)
         \o <<":", " ">> \o JSONQuote(<<"B","u","f","f","e","r">>)
         \o <<",", "\n">> \o <<" ", " ">> \o JSONQuote(<<"d","a","t","a">>)
         \o <<":", " ">>
         \o (IF v.s = <<>> THEN <<"[", "]">>
             ELSE <<"[", "\n">>
                  \o JoinLines([i \in 1..Len(v.s) |->
                                  NumberToString(CharCode(v.s[i]))],
                               <<" ", " ", " ", " ">>)
                  \o <<"\n", " ", " ", "]">>)
         \o <<"\n", "}">>
    [] v.t = "object" /\ v.cls # "buffer" ->
         IF v.fields = <<>> THEN STR_empty_object
         ELSE <<"{", "\n">>
              \o JoinLines([i \in 1..Len(v.fields) |->
                              JSONQuote(v.fields[i].k) \o <<":", " ">>
                              \o (IF v.fields[i].num THEN v.fields[i].v
                                  ELSE JSONQuote(v.fields[i].v))],
                           <<" ", " ">>)
              \o <<"\n", "}">>

\* a JSON number of the corpus: digits without a leading zero
IsJSONNumber(s) ==
  /\ s # <<>>
  /\ \A i \in 1..Len(s) : s[i] \in Digits
  /\ (s[1] = "0" => Len(s) = 1)

\* JSON.parse(s), exact on the bodies of the corpus: a number, true, false,
\* the empty string, an empty object, or an object with one member
\* "key": number.  ok = FALSE stands
\* for the SyntaxError it throws.
JSONParse(s) ==
  LET t     == Trim(s)
      inner == IF Len(t) >= 2 THEN Trim(SubSeq(t, 2, Len(t) - 1)) ELSE <<>>
      q2    == IndexOf(Tail(inner), <<"\"">>)
      key   == SubSeq(inner, 2, q2 + 1)
      rest  == Trim(SubSeq(inner, q2 + 3, Len(inner)))
      val   == IF rest = <<>> THEN <<>> ELSE Trim(Tail(rest))
      fail  == [ok |-> FALSE, value |-> JSUndefined]
  IN IF IsJSONNumber(t)
       THEN [ok |-> TRUE, value |-> JSNumber(DigitsToNumber(t))]
     ELSE IF t = STR_true \/ t = STR_false
       THEN [ok |-> TRUE, value |-> JSBoolean(t = STR_true)]
     ELSE IF t = <<"\"", "\"">>
       THEN [ok |-> TRUE, value |-> JSString(<<>>)]
     ELSE IF Len(t) >= 2 /\ t[1] = "{" /\ t[Len(t)] = "}"
       THEN IF inner = <<>>
              THEN [ok |-> TRUE, value |-> JSObject("plain", <<>>)]
            ELSE IF /\ inner[1] = "\""
                    /\ q2 # -1
                    /\ \A i \in 1..Len(key) : key[i] \notin {"\\", "\n"}
                    /\ rest # <<>>
                    /\ rest[1] = ":"
                    /\ IsJSONNumber(val)
              THEN [ok |-> TRUE,
                    value |-> JSObject("plain", <<Field(key, val, TRUE)>>)]
            ELSE fail
     ELSE fail

RECURSIVE Split(_, _)
\* String.prototype.split on a one-character separator
Split(s, sep) ==
  LET hits == {i \in 1..Len(s) : s[i] = sep}
  IN IF hits = {} THEN <<s>>
     ELSE <<SubSeq(s, 1, Min(hits) - 1)>>
          \o Split(SubSeq(s, Min(hits) + 1, Len(s)), sep)

\* application/x-www-form-urlencoded decoding of one name or value: "+"
\* becomes a space (no body of the corpus holds a "%" escape)
FormUnescape(s) == [i \in 1..Len(s) |-> IF s[i] = "+" THEN " " ELSE s[i]]

\* new URLSearchParams(s): the name/value pairs in order
URLSearchParams(s) ==
  LET q     == IF s # <<>> /\ s[1] = "?" THEN Tail(s) ELSE s
      segs  == SelectSeq(Split(q, "&"), LAMBDA g : g # <<>>)
      pair(g) ==
        LET eq == IndexOf(g, <<"=">>)
        IN IF eq = -1 THEN Field(FormUnescape(g), <<>>, FALSE)
           ELSE Field(FormUnescape(SubSeq(g, 1, eq)),
                      FormUnescape(SubSeq(g, eq + 2, Len(g))), FALSE)
  IN [i \in 1..Len(segs) |-> pair(segs[i])]

\* an integer-like property name (an array index): such keys are
\* enumerated first, in ascending order
IsIndexKey(k) == IsJSONNumber(k)

RECURSIVE SortIndexFields(_)
SortIndexFields(fs) ==
  IF fs = <<>> THEN <<>>
  ELSE LET m == CHOOSE i \in 1..Len(fs) :
                  \A j \in 1..Len(fs) :
                    DigitsToNumber(fs[i].k) <= DigitsToNumber(fs[j].k)
       IN <<fs[m]>>
          \o SortIndexFields(SubSeq(fs, 1, m - 1) \o SubSeq(fs, m + 1, Len(fs)))

RECURSIVE SetEntries(_, _)
\* obj[name] = value for each pair in turn: a repeated name keeps its place
\* and takes the later value
SetEntries(fs, entries) ==
  IF entries = <<>> THEN fs
  ELSE LET e == entries[1]
           at == {i \in 1..Len(fs) : fs[i].k = e.k}
       IN SetEntries(IF at = {} THEN Append(fs, e)
                     ELSE [fs EXCEPT ![Min(at)] = e],
                     Tail(entries))

\* Object.fromEntries(pairs): an ordinary object
ObjectFromEntries(entries) ==
  LET fs == SetEntries(<<>>, entries)
  IN JSObject("plain",
       SortIndexFields(SelectSeq(fs, LAMBDA f : IsIndexKey(f.k)))
       \o SelectSeq(fs, LAMBDA f : ~IsIndexKey(f.k)))

\* own property of an object, or Absent
HasOwn(v, k) == \E i \in 1..Len(v.fields) : v.fields[i].k = k

\* the value of req.body.toString as a boolean (part_002:39): inherited from
\* Object.prototype or Buffer.prototype, or an own property shadowing it
ToStringTruthy(v) ==
  IF HasOwn(v, STR_toString)
    THEN LET f == v.fields[Min({i \in 1..Len(v.fields) :
                                   v.fields[i].k = STR_toString})]
         IN IF f.num THEN DigitsToNumber(f.v) # 0 ELSE f.v # <<>>
  ELSE v.cls # "nullproto"

\* req.body.toString is callable: only when it is the inherited method
ToStringCallable(v) == ~HasOwn(v, STR_toString) /\ v.cls # "nullproto"

\* obj.toString('utf8') where callable
ObjectToString(v) == IF v.cls = "buffer" THEN v.s ELSE STR_object_Object

\* String(v) of a truthy value; ok = FALSE stands for the TypeError
\* "Cannot convert object to primitive value"
ToStringValue(v) ==
  CASE v.t = "string"  -> [ok |-> TRUE, s |-> v.s]
    [] v.t = "number"  -> [ok |-> TRUE, s |-> NumberToString(v.n)]
    [] v.t = "boolean" -> [ok |-> TRUE, s |-> IF v.b THEN STR_true ELSE STR_false]
    [] v.t = "object"  ->
         IF ToStringCallable(v) THEN [ok |-> TRUE, s |-> ObjectToString(v)]
         ELSE [ok |-> FALSE, s |-> <<>>]

\* ------------------------------------------------------------------------
\* Requests: method, content-type header, body bytes on the wire, the value
\* the hosting framework exposes as req.body, and the chunks still unread on
\* the request stream.
\* ------------------------------------------------------------------------
Methods == {"POST", "OPTIONS", "GET", "PUT"}

CT_application_xml ==
  <<"a","p","p","l","i","c","a","t","i","o","n","/","x","m","l">>

CT_octet_stream ==
  <<"a","p","p","l","i","c","a","t","i","o","n","/","o","c","t","e","t","-","s","t","r","e","a","m">>

\* values of req.headers['content-type']: undefined when the header is absent
ContentTypes ==
  {JSUndefined} \cup
  {JSString(c) : c \in {STR_application_json, CT_application_xml,
                        STR_text_plain, STR_form_urlencoded, STR_multipart,
                        CT_octet_stream}}

FRAG_tag ==
  <<"<","r",">">>

FRAG_one ==
  <<"1">>

FRAG_space ==
  <<" ">>

Fragments ==
  {STR_xml_decl, STR_decl_end, FRAG_space, FRAG_tag, FRAG_one}

RECURSIVE Concats(_)
\* the strings made of at most n fragments
Concats(n) ==
  IF n = 0 THEN {<<>>}
  ELSE LET shorter == Concats(n - 1)
       IN shorter \cup {s \o f : s \in shorter, f \in Fragments}

\* bodies outside the fragment alphabet: JSON texts and a form body
ExtraBytes ==
  {<<"{","}">>,
   <<"{","\"","t","o","S","t","r","i","n","g","\"",":","1","}">>,
   STR_false,
   <<"\"","\"">>,
   <<"1","=","1","&","1","1","=","&","1","=","+">>}

BodyBytes == Concats(MaxFrags) \cup ExtraBytes

\* The values the hosting framework's body parser can expose as req.body for
\* a content-type header c and body bytes y: nothing (not parsed) or the
\* text under any content-type, the decoded value under application/json,
\* the decoded fields as a prototype-less object under
\* application/x-www-form-urlencoded, a Buffer under
\* application/octet-stream.
FrameworkBodies(c, y) ==
  LET j  == JSONParse(y)
      qs == URLSearchParams(y)
  IN {JSUndefined, JSString(y)}
     \cup (IF c = JSString(STR_application_json) /\ j.ok
           THEN {j.value} ELSE {})
     \cup (IF /\ c = JSString(STR_form_urlencoded)
              /\ (y # <<>> => y[1] # "?")
              /\ \A a, b \in 1..Len(qs) : qs[a].k = qs[b].k => a = b
           THEN {JSObject("nullproto", qs)} ELSE {})
     \cup (IF c = JSString(CT_octet_stream) THEN {JSBuffer(y)} ELSE {})

\* What is left on the stream when the framework did not parse the body:
\* nothing (already drained), the bytes in one chunk, or in two chunks.
StreamChunks(bytes, body) ==
  IF body # JSUndefined \/ bytes = <<>> THEN {<<>>}
  ELSE {<<>>, <<bytes>>}
       \cup (IF Len(bytes) >= 2
             THEN {<<SubSeq(bytes, 1, 1), SubSeq(bytes, 2, Len(bytes))>>}
             ELSE {})

Request(m, c, y, b, k) ==
  [method |-> m, ct |-> c, bytes |-> y, body |-> b, stream |-> k]

\* Requests other than POST carry no body.
BodilessRequests ==
  {Request(m, c, <<>>, JSUndefined, <<>>) :
     m \in Methods \ {"POST"}, c \in ContentTypes}

\* The requests given to the handlers that never read the request stream.
Requests ==
  BodilessRequests \cup
  UNION {{Request("POST", c, y, b, <<>>) : b \in FrameworkBodies(c, y)} :
         c \in ContentTypes, y \in BodyBytes}

\* The requests given to the stream handler: the same, and those with unread
\* chunks on the stream.
StreamRequests ==
  Requests \cup
  UNION {{Request("POST", c, y, JSUndefined, k) :
            c \in ContentTypes, k \in StreamChunks(y, JSUndefined)} :
         y \in BodyBytes}

\* The requests of the runs with several invocations.
SeqRequests ==
  {Request("GET", JSUndefined, <<>>, JSUndefined, <<>>)} \cup
  {r \in StreamRequests :
     /\ r.method = "POST"
     /\ r.ct \in {JSUndefined, JSString(STR_application_json)}
     /\ r.bytes \in {<<>>, FRAG_one}
     /\ r.body \in {JSUndefined, JSString(r.bytes)}}

\* ------------------------------------------------------------------------
\* State
\* ------------------------------------------------------------------------
VARIABLES
  now,        \* Date.now(), in milliseconds
  store,      \* the requestId of each document committed to 'api_requests'
  nreq,       \* requests received so far
  pc,         \* "idle" | "awaiting" (suspended in await db...add) | "done"
  handler,    \* the handler serving the current request
  req,        \* the current request
  bodyData,   \* local of the stream handler, shared with its callbacks
  rawBody,    \* local of the handlers that compute a raw body
  chunks,     \* local of the stream handler's callbacks
  listening,  \* the 'data' and 'end' listeners are registered
  unread,     \* chunks the request stream has yet to emit
  ended,      \* the stream has emitted 'end'
  captured,   \* capturedData of the current request
  added,      \* the document handed to db.collection('api_requests').add
  addCalls,   \* calls of add made for the current request
  promise,    \* the promise add returned: "none" | "pending" | "fulfilled"
              \* | "rejected"
  res         \* the response object: headers set, and what was sent

vars ==
  <<now, store, nreq, pc, handler, req, bodyData, rawBody, chunks, listening,
    unread, ended, captured, added, addCalls, promise, res>>

Handlers == {"basic", "stream", "xml", "typed", "diag"}

CaptureHandlers == Handlers \ {"diag"}

NoRequest ==
  [method |-> "", ct |-> JSUndefined, bytes |-> <<>>, body |-> JSUndefined,
   stream |-> <<>>]

NoData == [absent |-> TRUE]

NoBody == [absent |-> TRUE]

\* a response object on which nothing was set or sent
FreshResponse ==
  [headers |-> {}, sent |-> 0, status |-> 0, kind |-> "none", body |-> NoBody]

\* res.setHeader, three times (part_001:45-47, 203-205; part_002:109-111;
\* test-capture.ts:6-8, 65-67, 150-152)
SetCorsHeaders(r, methods) ==
  [r EXCEPT !.headers = @ \cup
     {<<"Access-Control-Allow-Origin", "*">>,
      <<"Access-Control-Allow-Methods", methods>>,
      <<"Access-Control-Allow-Headers", "Content-Type">>}]

\* res.status(code).json(body)
SendJson(r, code, body) ==
  [r EXCEPT !.sent = @ + 1, !.status = code, !.kind = "json", !.body = body]

\* res.status(code).end()
SendEnd(r, code) ==
  [r EXCEPT !.sent = @ + 1, !.status = code, !.kind = "end", !.body = NoBody]

\* MethodNotAllowed with the allowed method echoed as the received one
MethodNotAllowed_EchoAllowed(method) ==
  [error |-> "Method not allowed. Only POST requests are accepted.",
   allowedMethod |-> "POST",
   receivedMethod |-> "POST"]

\* the 405 body of the capture handlers
MethodNotAllowed(method) ==
  [error |-> "Method not allowed. Only POST requests are accepted.",
   allowedMethod |-> "POST",
   receivedMethod |-> method]

\* the 500 body of every handler
InternalError(message) ==
  [success |-> FALSE, error |-> "Internal server error", message |-> message]

\* Math.random().toString(36).substr(2, 9), for the r-th possible draw
Suffix(r) == NumberToString(r)

\* `${Date.now()}-${Math.random().toString(36).substr(2, 9)}`
RequestId(t, r) == NumberToString(t) \o <<"-">> \o Suffix(r)

\* ------------------------------------------------------------------------
\* Body normalisation, as each handler computes it
\* ------------------------------------------------------------------------
\* req.headers['content-type'] || ''
ContentTypeOrEmpty(r) == IF Truthy(r.ct) THEN r.ct.s ELSE <<>>

\* rawBody of the stream and typed handlers (part_001:118-127,
\* test-capture.ts:107-116)
RawBodyOf(b) ==
  IF Truthy(b)
    THEN IF TypeOf(b) = "string" THEN b.s
         ELSE IF TypeOf(b) = "object" THEN JSONStringify(b)
         ELSE <<>>
  ELSE <<>>

\* rawBody of the xml handler (part_002:31-46); ok = FALSE stands for the
\* TypeError of calling a toString that is not a function
XmlRawBodyOf(b) ==
  IF Truthy(b)
    THEN IF TypeOf(b) = "string" THEN [ok |-> TRUE, s |-> b.s]
         ELSE IF TypeOf(b) = "object"
           THEN IF ToStringTruthy(b)
                  THEN IF ToStringCallable(b)
                         THEN [ok |-> TRUE, s |-> ObjectToString(b)]
                       ELSE [ok |-> FALSE, s |-> <<>>]
                ELSE [ok |-> TRUE, s |-> JSONStringify(b)]
         ELSE [ok |-> TRUE, s |-> <<>>]
  ELSE [ok |-> TRUE, s |-> <<>>]

IsJSON(ct) == Includes(ct, STR_application_json)

\* IsXML without the content sniffing of a body of unknown content-type
IsXML_HeaderOnly(ct, raw) ==
  \/ Includes(ct, STR_xml)
  \/ Includes(ct, STR_text_plain) /\ StartsWith(Trim(raw), STR_xml_decl)

IsXML(ct, raw) ==
  \/ Includes(ct, STR_xml)
  \/ Includes(ct, STR_text_plain) /\ StartsWith(Trim(raw), STR_xml_decl)
  \/ StartsWith(Trim(raw), STR_xml_decl)

IsFormData(ct) ==
  \/ Includes(ct, STR_form_urlencoded)
  \/ Includes(ct, STR_multipart)

IsTextPlain(ct) == Includes(ct, STR_text_plain)

\* part_001:184
BodyTypeStream(ct, raw) ==
  IF IsJSON(ct) THEN "json"
  ELSE IF IsXML(ct, raw) THEN "xml"
  ELSE IF IsFormData(ct) THEN "form"
  ELSE IF IsTextPlain(ct) THEN "text"
  ELSE "unknown"

\* test-capture.ts:137
BodyTypeTyped(ct, raw) ==
  IF IsJSON(ct) THEN "json"
  ELSE IF IsXML(ct, raw) THEN "xml"
  ELSE IF IsFormData(ct) THEN "form"
  ELSE "unknown"

\* ParsedBody with a failed JSON.parse leaving null instead of the string
ParsedBody_NullOnFailure(ct, b) ==
  IF IsJSON(ct) /\ TypeOf(b) = "string"
    THEN IF JSONParse(b.s).ok THEN JSONParse(b.s).value ELSE JSNull
  ELSE IF IsFormData(ct) /\ TypeOf(b) = "string"
    THEN ObjectFromEntries(URLSearchParams(b.s))
  ELSE b

\* part_001:156-172
ParsedBody(ct, b) ==
  IF IsJSON(ct) /\ TypeOf(b) = "string"
    THEN IF JSONParse(b.s).ok THEN JSONParse(b.s).value ELSE b
  ELSE IF IsFormData(ct) /\ TypeOf(b) = "string"
    THEN ObjectFromEntries(URLSearchParams(b.s))
  ELSE b

\* rawBody || null
OrNull(raw) == IF raw # <<>> THEN JSString(raw) ELSE JSNull

NoXMLMetadata ==
  [present |-> FALSE, declaration |-> <<>>, rootElement |-> <<>>,
   length |-> 0, hasDoctype |-> FALSE, encoding |-> ""]

\* part_002:55-79
XmlMetadataOf(isXML, raw) ==
  LET xmlStart == IndexOf(raw, STR_xml_decl)
      xmlEnd   == IndexOf(raw, STR_decl_end)
      xmlDeclaration == Substring(raw, xmlStart, xmlEnd + 2)
      rootMatch == RootMatch(raw)
  IN IF isXML /\ raw # <<>> /\ xmlStart # -1 /\ xmlEnd # -1
       THEN [present     |-> TRUE,
             declaration |-> xmlDeclaration,
             rootElement |-> IF rootMatch # <<>> THEN rootMatch
                             ELSE STR_unknown,
             length      |-> Len(raw),
             hasDoctype  |-> Includes(raw, STR_doctype),
             encoding    |-> IF Includes(xmlDeclaration, STR_encoding_utf8)
                             THEN "UTF-8" ELSE "unknown"]
     ELSE NoXMLMetadata

\* capturedData of part_001:23-42
CapturedBasic(r, t) ==
  [timestamp |-> t, method |-> r.method, body |-> r.body,
   contentType |-> r.ct]

\* capturedData of part_001:175-200
CapturedStream(r, t) ==
  LET ct  == ContentTypeOrEmpty(r)
      raw == RawBodyOf(r.body)
  IN [timestamp |-> t, method |-> r.method,
      body |-> ParsedBody(ct, r.body),
      rawBody |-> OrNull(raw),
      bodyType |-> BodyTypeStream(ct, raw),
      contentType |-> ct,
      isJSON |-> IsJSON(ct), isXML |-> IsXML(ct, raw),
      isFormData |-> IsFormData(ct), isTextPlain |-> IsTextPlain(ct),
      bodyExists |-> Truthy(r.body), rawBodyExists |-> raw # <<>>,
      bodyDataType |-> TypeOf(r.body), rawBodyLength |-> Len(raw)]

\* capturedData of part_002:82-106
CapturedXml(r, t) ==
  LET ct  == ContentTypeOrEmpty(r)
      raw == XmlRawBodyOf(r.body).s
  IN [timestamp |-> t, method |-> r.method, body |-> r.body,
      rawBody |-> OrNull(raw),
      contentType |-> ct,
      isXML |-> IsXML(ct, raw),
      xmlMetadata |-> XmlMetadataOf(IsXML(ct, raw), raw)]

\* capturedData of test-capture.ts:128-147
CapturedTyped(r, t) ==
  LET ct  == ContentTypeOrEmpty(r)
      raw == RawBodyOf(r.body)
  IN [timestamp |-> t, method |-> r.method, body |-> r.body,
      rawBody |-> OrNull(raw),
      bodyType |-> BodyTypeTyped(ct, raw),
      contentType |-> ct,
      isJSON |-> IsJSON(ct), isXML |-> IsXML(ct, raw),
      isFormData |-> IsFormData(ct)]

\* the `response` object of test-capture.ts:14-62 (String(bodyData) has
\* succeeded)
DiagnosticData(r, t) ==
  LET b   == r.body
      str == IF Truthy(b) THEN JSString(ToStringValue(b).s) ELSE JSNull
      ct  == IF Truthy(r.ct) THEN r.ct.s ELSE STR_not_set
  IN [timestamp |-> t, method |-> r.method,
      body |-> [data |-> b, type |-> b.t,
                string |-> str,
                json |-> IF Truthy(b) THEN JSString(JSONStringify(b))
                         ELSE JSNull,
                exists |-> Truthy(b),
                length |-> IF str.t = "string" THEN Len(str.s) ELSE 0],
      contentType |-> ct,
      debug |-> [bodyIsNull |-> b.t = "null",
                 bodyIsUndefined |-> b.t = "undefined",
                 bodyIsEmptyString |-> b = JSString(<<>>),
                 bodyIsEmptyObject |->
                   b.t = "object" /\ b.cls # "buffer" /\ b.fields = <<>>,
                 contentTypeIncludesJson |-> Includes(ct, STR_json),
                 contentTypeIncludesForm |-> Includes(ct, STR_form),
                 contentTypeIncludesText |-> Includes(ct, STR_text)]]

\* ------------------------------------------------------------------------
\* Initial state: no request received, empty collection
\* ------------------------------------------------------------------------
Init ==
  /\ now = 0
  /\ store = <<>>
  /\ nreq = 0
  /\ pc = "idle"
  /\ handler = "none"
  /\ req = NoRequest
  /\ bodyData = JSUndefined
  /\ rawBody = <<>>
  /\ chunks = <<>>
  /\ listening = FALSE
  /\ unread = <<>>
  /\ ended = FALSE
  /\ captured = NoData
  /\ added = NoData
  /\ addCalls = 0
  /\ promise = "none"
  /\ res = FreshResponse

\* ------------------------------------------------------------------------
\* Steps shared by the handlers
\* ------------------------------------------------------------------------
\* the runtime is free to invoke a handler
Idle ==
  /\ pc = "idle"
  /\ nreq < MaxRequests

\* the runtime invokes handler h with request r and a fresh response
Invoke(h, r) ==
  /\ Idle
  /\ nreq' = nreq + 1
  /\ handler' = h
  /\ req' = r
  /\ unread' = r.stream
  /\ ended' = FALSE
  /\ chunks' = <<>>
  /\ UNCHANGED <<now, store>>

\* the handler returns without touching the database
Return(response) ==
  /\ res' = response
  /\ pc' = "done"
  /\ added' = NoData
  /\ addCalls' = 0
  /\ promise' = "none"

\* if (req.method !== 'POST') return res.status(405).json({...})
RejectMethod(r) ==
  /\ Return(SendJson(FreshResponse, 405, MethodNotAllowed(r.method)))
  /\ captured' = NoData
  /\ bodyData' = JSUndefined
  /\ rawBody' = <<>>
  /\ listening' = FALSE

\* db.collection('api_requests').add({...capturedData, createdAt, requestId
\* [, collectionType]}) is called and the handler suspends in the await
CallAdd(data, response, collectionType) ==
  /\ \E r \in 1..NumSuffixes :
       added' = [data |-> data, createdAt |-> now,
                 requestId |-> RequestId(now, r),
                 collectionType |-> collectionType]
  /\ addCalls' = 1
  /\ promise' = "pending"
  /\ res' = response
  /\ pc' = "awaiting"

\* lines 44-62 of part_001 and their copies: CORS headers, the OPTIONS
\* branch, the call of add
RespondOrPersist(r, data, collectionType) ==
  LET withCors == SetCorsHeaders(FreshResponse, "POST, OPTIONS")
  IN IF r.method = "OPTIONS"
       THEN Return(SendEnd(withCors, 200))
     ELSE CallAdd(data, withCors, collectionType)

\* ------------------------------------------------------------------------
\* The handlers, up to their first suspension
\* ------------------------------------------------------------------------
\* src/unnamed/part_001:11-62
handler_basic(r) ==
  /\ Invoke("basic", r)
  /\ IF r.method # "POST" THEN RejectMethod(r)
     ELSE /\ captured' = CapturedBasic(r, now)
          /\ bodyData' = JSUndefined
          /\ rawBody' = <<>>
          /\ listening' = FALSE
          /\ RespondOrPersist(r, CapturedBasic(r, now), "")

\* src/unnamed/part_001:105-220
handler_stream(r) ==
  /\ Invoke("stream", r)
  /\ IF r.method # "POST" THEN RejectMethod(r)
     ELSE /\ bodyData' = r.body
          /\ rawBody' = RawBodyOf(r.body)
          /\ listening' = (~Truthy(r.body) /\ RawBodyOf(r.body) = <<>>)
          /\ captured' = CapturedStream(r, now)
          /\ RespondOrPersist(r, CapturedStream(r, now), "")

\* src/unnamed/part_002:19-128
handler_xml(r) ==
  /\ Invoke("xml", r)
  /\ IF r.method # "POST" THEN RejectMethod(r)
     ELSE /\ bodyData' = JSUndefined
          /\ listening' = FALSE
          /\ IF ~XmlRawBodyOf(r.body).ok
               THEN \* TypeError caught at part_002:152
                    /\ rawBody' = <<>>
                    /\ captured' = NoData
                    /\ Return(SendJson(FreshResponse, 500,
                         InternalError("req.body.toString is not a function")))
             ELSE /\ rawBody' = <<>>
                  /\ captured' = CapturedXml(r, now)
                  /\ RespondOrPersist(r, CapturedXml(r, now), "xml_capture")

\* src/api/test-capture.ts:94-167
handler_typed(r) ==
  /\ Invoke("typed", r)
  /\ IF r.method # "POST" THEN RejectMethod(r)
     ELSE /\ bodyData' = JSUndefined
          /\ rawBody' = <<>>
          /\ listening' = FALSE
          /\ captured' = CapturedTyped(r, now)
          /\ RespondOrPersist(r, CapturedTyped(r, now), "")

\* src/api/test-capture.ts:3-83
handler_diag(r) ==
  /\ Invoke("diag", r)
  /\ bodyData' = JSUndefined
  /\ rawBody' = <<>>
  /\ listening' = FALSE
  /\ captured' = NoData
  /\ IF r.method = "OPTIONS"
       THEN Return(SendEnd(SetCorsHeaders(FreshResponse,
                             "GET, POST, PUT, DELETE, OPTIONS"), 200))
     ELSE IF Truthy(r.body) /\ ~ToStringValue(r.body).ok
       THEN \* TypeError of String(bodyData), caught at test-capture.ts:75
            Return(SendJson(FreshResponse, 500,
              InternalError("Cannot convert object to primitive value")))
     ELSE Return(SendJson(SetCorsHeaders(FreshResponse,
                            "GET, POST, PUT, DELETE, OPTIONS"), 200,
            [success |-> TRUE, message |-> "Test capture completed",
             data |-> DiagnosticData(r, now)]))

\* ------------------------------------------------------------------------
\* The handlers, from the settlement of add to the response
\* ------------------------------------------------------------------------
\* message of the 200 envelope (part_002:147 chooses by isXML)
CaptureMessage ==
  IF handler = "xml" /\ captured.isXML THEN "XML data captured successfully"
  ELSE "Request data captured successfully"

\* res.status(200).json({success: true, message, data, firestore})
Respond200(firestoreResult) ==
  /\ res' = SendJson(res, 200,
       [success |-> TRUE, message |-> CaptureMessage, data |-> captured,
        firestore |-> firestoreResult])
  /\ pc' = "done"

\* the promise of add resolves: the document is in the collection
AddResolves ==
  /\ pc = "awaiting"
  /\ promise' = "fulfilled"
  /\ store' = Append(store, added.requestId)
  /\ Respond200([success |-> TRUE,
                 documentId |-> Len(store) + 1,
                 message |-> IF handler = "xml"
                             THEN "XML data saved to Firestore successfully"
                             ELSE "Data saved to Firestore successfully"])
  /\ UNCHANGED <<now, nreq, handler, req, bodyData, rawBody, chunks,
                 listening, unread, ended, captured, added, addCalls>>

\* what add can be rejected with: an Error, or a value that is not one
Rejections ==
  {[isError |-> TRUE, message |-> "DEADLINE_EXCEEDED"],
   [isError |-> FALSE, message |-> ""]}

\* AddRejects without the inner try/catch: the rejection reaches the outer
\* catch of the handler
AddRejects_Uncaught(e) ==
  /\ pc = "awaiting"
  /\ promise' = "rejected"
  /\ res' = SendJson(res, 500,
       InternalError(IF e.isError THEN e.message ELSE "Unknown error"))
  /\ pc' = "done"
  /\ UNCHANGED <<now, store, nreq, handler, req, bodyData, rawBody, chunks,
                 listening, unread, ended, captured, added, addCalls>>

\* AddRejects with a retry: the rejected write is attempted again
AddRejects_Retry(e) ==
  /\ pc = "awaiting"
  /\ addCalls' = addCalls + 1
  /\ promise' = "pending"
  /\ UNCHANGED <<now, store, nreq, pc, handler, req, bodyData, rawBody,
                 chunks, listening, unread, ended, captured, added, res>>

\* the promise of add rejects (or add throws): nothing is stored
AddRejects(e) ==
  /\ pc = "awaiting"
  /\ promise' = "rejected"
  /\ Respond200([success |-> FALSE,
                 error |-> "Failed to save to Firestore",
                 message |-> IF e.isError THEN e.message
                             ELSE "Unknown Firestore error"])
  /\ UNCHANGED <<now, store, nreq, handler, req, bodyData, rawBody, chunks,
                 listening, unread, ended, captured, added, addCalls>>

\* ------------------------------------------------------------------------
\* Stream callbacks of the stream handler (part_001:133-142).  They run
\* only between the handler's synchronous runs.
\* ------------------------------------------------------------------------
RECURSIVE BufferConcat(_)
\* Buffer.concat(chunks).toString('utf8')
BufferConcat(cs) == IF cs = <<>> THEN <<>> ELSE cs[1] \o BufferConcat(Tail(cs))

\* req.on('data', chunk => chunks.push(chunk))
OnData ==
  /\ pc \in {"awaiting", "done"}
  /\ listening
  /\ unread # <<>>
  /\ chunks' = Append(chunks, Head(unread))
  /\ unread' = Tail(unread)
  /\ UNCHANGED <<now, store, nreq, pc, handler, req, bodyData, rawBody,
                 listening, ended, captured, added, addCalls, promise, res>>

\* req.on('end', () => { if (chunks.length > 0) { rawBody = ...; bodyData =
\* rawBody } })
OnEnd ==
  /\ pc \in {"awaiting", "done"}
  /\ listening
  /\ unread = <<>>
  /\ ~ended
  /\ ended' = TRUE
  /\ IF Len(chunks) > 0
       THEN /\ rawBody' = BufferConcat(chunks)
            /\ bodyData' = JSString(BufferConcat(chunks))
     ELSE UNCHANGED <<rawBody, bodyData>>
  /\ UNCHANGED <<now, store, nreq, pc, handler, req, chunks, listening,
                 unread, captured, added, addCalls, promise, res>>

\* the invocation is over: the runtime drops the request, the response and
\* the handler's locals, and can invoke a handler again
Complete ==
  /\ pc = "done"
  /\ pc' = "idle"
  /\ handler' = "none"
  /\ req' = NoRequest
  /\ bodyData' = JSUndefined
  /\ rawBody' = <<>>
  /\ chunks' = <<>>
  /\ listening' = FALSE
  /\ unread' = <<>>
  /\ ended' = FALSE
  /\ captured' = NoData
  /\ added' = NoData
  /\ addCalls' = 0
  /\ promise' = "none"
  /\ res' = FreshResponse
  /\ UNCHANGED <<now, store, nreq>>

\* a millisecond passes
Tick ==
  /\ now < MaxClock
  /\ now' = now + 1
  /\ UNCHANGED <<store, nreq, pc, handler, req, bodyData, rawBody, chunks,
                 listening, unread, ended, captured, added, addCalls, promise,
                 res>>

\* one invocation of a handler, on any request
Next ==
  \/ Idle /\ \E r \in Requests : handler_basic(r)
  \/ Idle /\ \E r \in StreamRequests : handler_stream(r)
  \/ Idle /\ \E r \in Requests : handler_xml(r)
  \/ Idle /\ \E r \in Requests : handler_typed(r)
  \/ Idle /\ \E r \in Requests : handler_diag(r)
  \/ AddResolves
  \/ \E e \in Rejections : AddRejects(e)
  \/ OnData
  \/ OnEnd

Spec == Init /\ [][Next]_vars

\* the promise returned by add settles: it resolves or it rejects
AddSettles == AddResolves \/ \E e \in Rejections : AddRejects(e)

\* one invocation, in which a pending add is eventually settled (the
\* suspended handler is resumed by the event loop as soon as it is)
SpecFair == Spec /\ WF_vars(AddSettles)

\* invocations one after another while the clock runs, on a few requests
NextSeq ==
  \/ Idle /\ \E r \in SeqRequests : handler_basic(r)
  \/ Idle /\ \E r \in SeqRequests : handler_stream(r)
  \/ Idle /\ \E r \in SeqRequests : handler_xml(r)
  \/ Idle /\ \E r \in SeqRequests : handler_typed(r)
  \/ Idle /\ \E r \in SeqRequests : handler_diag(r)
  \/ AddResolves
  \/ \E e \in Rejections : AddRejects(e)
  \/ OnData
  \/ OnEnd
  \/ Complete
  \/ Tick

SpecSeq == Init /\ [][NextSeq]_vars

\* ------------------------------------------------------------------------
\* Properties
\* ------------------------------------------------------------------------
\* the three cross-origin headers are set on the response
HasCorsHeaders(r) ==
  /\ <<"Access-Control-Allow-Origin", "*">> \in r.headers
  /\ \E h \in r.headers : h[1] = "Access-Control-Allow-Methods"
  /\ <<"Access-Control-Allow-Headers", "Content-Type">> \in r.headers

\* a capture handler has answered the current request
Answered == pc = "done" /\ handler \in CaptureHandlers

\* C1: a capture handler answers every OPTIONS request with status 200 and
\* an empty body, and never calls add for it.
C1_OptionsAnsweredEmpty200 ==
  (Answered /\ req.method = "OPTIONS") =>
    /\ res.status = 200
    /\ res.kind = "end"
    /\ addCalls = 0

\* C2: a capture handler answers every request whose method is neither POST
\* nor OPTIONS with status 405 and a body naming POST as the allowed method
\* and the request's method as the received one, without calling add.
C2_OtherMethodsRejected ==
  (handler \in CaptureHandlers /\ req.method \notin {"POST", "OPTIONS"}) =>
    /\ pc = "done"
    /\ res.sent = 1
    /\ res.status = 405
    /\ res.kind = "json"
    /\ DOMAIN res.body = {"error", "allowedMethod", "receivedMethod"}
    /\ res.body.allowedMethod = "POST"
    /\ res.body.receivedMethod = req.method
    /\ addCalls = 0
    /\ promise = "none"
    /\ store = <<>>

C2_Witness ==
  /\ Answered
  /\ handler = "xml"
  /\ req.method = "PUT"
  /\ res.status = 405
  /\ res.body.receivedMethod = "PUT"

\* C3: when add fails for a POST request, the response is 200 with
\* success = true and data = the capture record, the nested firestore outcome
\* has success = false, an error and a message, and no 500 is sent.
C3_WriteFailureStill200 ==
  /\ promise = "rejected" =>
       /\ pc = "done"
       /\ req.method = "POST"
       /\ res.sent = 1
       /\ res.status = 200
       /\ res.kind = "json"
       /\ DOMAIN res.body = {"success", "message", "data", "firestore"}
       /\ res.body.success = TRUE
       /\ captured # NoData
       /\ res.body.data = captured
       /\ DOMAIN res.body.firestore = {"success", "error", "message"}
       /\ res.body.firestore.success = FALSE
       /\ res.body.firestore.error = "Failed to save to Firestore"
       /\ res.body.firestore.message \in
            {"DEADLINE_EXCEEDED", "Unknown Firestore error"}
  /\ promise # "none" => res.status # 500

C3_Witness ==
  /\ Answered
  /\ promise = "rejected"
  /\ res.status = 200
  /\ res.body.firestore.success = FALSE
  /\ res.body.firestore.message = "DEADLINE_EXCEEDED"

\* the raw body string a handler worked with, "" when it recorded null
RecordedRawBody == IF captured.rawBody.t = "string" THEN captured.rawBody.s ELSE <<>>

\* C4 as stated: whenever the raw body of a POST request starts with <?xml,
\* the recorded bodyType is "xml", whatever the content-type.
C4_XmlPrefixAlwaysXml ==
  ("bodyType" \in DOMAIN captured
     /\ StartsWith(RecordedRawBody, STR_xml_decl)) =>
    captured.bodyType = "xml"

\* C4, amended: whenever the raw body of a POST request starts with <?xml,
\* the recorded bodyType is "xml" unless the content-type contains
\* application/json, and then it is "json".
C4_XmlPrefixXmlUnlessJson ==
  ("bodyType" \in DOMAIN captured
     /\ StartsWith(RecordedRawBody, STR_xml_decl)) =>
    captured.bodyType =
      IF Includes(ContentTypeOrEmpty(req), STR_application_json) THEN "json"
      ELSE "xml"

C4_Witness ==
  /\ Answered
  /\ handler = "typed"
  /\ req.ct = JSString(STR_form_urlencoded)
  /\ req.body = JSString(STR_xml_decl \o FRAG_space)
  /\ res.status = 200
  /\ res.body.data.bodyType = "xml"

\* C5: every handler that records bodyType assigns it by first match in the
\* order json, xml, form, text, unknown.
C5_FiveWayClassification ==
  "bodyType" \in DOMAIN captured =>
    LET ct  == ContentTypeOrEmpty(req)
        raw == RecordedRawBody
    IN captured.bodyType =
         IF Includes(ct, STR_application_json) THEN "json"
         ELSE IF \/ Includes(ct, STR_xml)
                 \/ StartsWith(Trim(raw), STR_xml_decl) THEN "xml"
         ELSE IF \/ Includes(ct, STR_form_urlencoded)
                 \/ Includes(ct, STR_multipart) THEN "form"
         ELSE IF Includes(ct, STR_text_plain) THEN "text"
         ELSE "unknown"

\* C6: every response sent, on every path, carries the three cross-origin
\* headers.
C6_EveryResponseHasCors == res.sent > 0 => HasCorsHeaders(res)

\* C7: a recorded rawBody is null exactly when the request carried no body
\* bytes.
C7_RawBodyNullIffNoBytes ==
  "rawBody" \in DOMAIN captured =>
    (captured.rawBody = JSNull <=> req.bytes = <<>>)

\* C8: in the xml handler, for a non-empty raw body classified as XML,
\* xmlMetadata is produced exactly when <?xml occurs and a ?> occurs at or
\* after the first <?xml; the declaration is then the text from that <?xml
\* through that ?>; without the pair the request still succeeds.
C8_DeclarationFromPair ==
  (handler = "xml" /\ captured # NoData /\ captured.isXML
     /\ captured.rawBody # JSNull) =>
    LET raw   == captured.rawBody.s
        start == IndexOf(raw, STR_xml_decl)
        ends  == {i \in 0..(Len(raw) - 2) :
                    i >= start /\ MatchAt(raw, STR_decl_end, i)}
        found == start # -1 /\ ends # {}
    IN /\ captured.xmlMetadata.present <=> found
       /\ found => captured.xmlMetadata.declaration =
                     SubSeq(raw, start + 1, Min(ends) + 2)
       /\ pc = "done" => res.status = 200

\* C9: when the content-type contains application/json and JSON.parse fails
\* on the body string, the recorded body is that string unchanged, bodyType
\* is "json", and the request is answered with 200, never 500.
C9_JsonParseFailureKeepsRaw ==
  (handler \in {"stream", "typed"}
     /\ req.method = "POST"
     /\ Includes(ContentTypeOrEmpty(req), STR_application_json)
     /\ TypeOf(req.body) = "string"
     /\ ~JSONParse(req.body.s).ok) =>
    /\ captured # NoData
    /\ captured.body = req.body
    /\ captured.bodyType = "json"
    /\ res.status \in {0, 200}
    /\ pc = "done" =>
         /\ res.status = 200
         /\ res.body.data.body = req.body
         /\ res.body.data.bodyType = "json"

C9_Witness ==
  /\ Answered
  /\ handler = "stream"
  /\ req.ct = JSString(STR_application_json)
  /\ req.body = JSString(STR_xml_decl \o STR_decl_end)
  /\ res.status = 200
  /\ res.body.data.body = JSString(STR_xml_decl \o STR_decl_end)

\* C10: each persisted record gets its requestId once, at the write (the
\* capture record in the response carries none), and no two persisted
\* records share a requestId.
C10_RequestIdsNeverShared ==
  /\ captured # NoData => "requestId" \notin DOMAIN captured
  /\ (res.status = 200 /\ res.kind = "json" /\ handler \in CaptureHandlers) =>
       "requestId" \notin DOMAIN res.body.data
  /\ \A i, j \in 1..Len(store) : i # j => store[i] # store[j]

\* the bytes the request stream delivers to the listeners, decoded as UTF-8
StreamBytes == BufferConcat(req.stream)

\* C11: in the stream handler, when the framework parsed no body and the
\* request stream delivers bytes, 'end' has been handled before the call of
\* add, and the capture record assembled, handed to add and returned in the
\* response has rawBody and body equal to those bytes.
C11_StreamBytesInRecord ==
  (handler = "stream" /\ listening /\ req.stream # <<>>) =>
    /\ addCalls = 1 =>
         /\ ended
         /\ added.data.rawBody = JSString(StreamBytes)
         /\ added.data.body = JSString(StreamBytes)
    /\ (pc = "done" /\ res.status = 200) =>
         /\ res.body.data.rawBody = JSString(StreamBytes)
         /\ res.body.data.body = JSString(StreamBytes)

\* what holds of a request to a capture handler at every moment
OneResponseOneWrite ==
  handler \in CaptureHandlers =>
    /\ res.sent <= 1
    /\ addCalls <= 1
    /\ Len(store) <= addCalls
    /\ addCalls = 1 => req.method = "POST"
    /\ pc = "awaiting" <=> promise = "pending"
    /\ pc = "awaiting" => addCalls = 1 /\ res.sent = 0
    /\ pc = "done" =>
         /\ res.sent = 1
         /\ res.status \in {200, 405, 500}
         /\ res.status = 200 =>
              /\ req.method = "POST"
              /\ addCalls = 1
              /\ promise \in {"fulfilled", "rejected"}
              /\ Len(store) = 1 <=> promise = "fulfilled"

\* C12: every request to a capture handler ends in exactly one response,
\* with status 200, 405 or 500; add is called at most once per request,
\* never again after a failure, and only for POST; the 200 response is sent
\* only once that call has settled, and a request whose write is pending is
\* eventually answered.
C12_OneTerminalResponse ==
  /\ []OneResponseOneWrite
  /\ (pc = "awaiting") ~> (pc = "done" /\ res.sent = 1)

\* a POST answered 200, once, after its only write failed
C12_Witness ==
  /\ Answered
  /\ req.method = "POST"
  /\ res.status = 200
  /\ res.sent = 1
  /\ addCalls = 1
  /\ promise = "rejected"
  /\ store = <<>>

====
